---- MODULE Spec2Model ----
(***************************************************************************)
(* App Store sales-report summariser: report parsing, the per-date fetch,  *)
(* anchor-date resolution, window aggregation and the overall run.         *)
(*                                                                         *)
(* Text is a sequence of one-character strings.  An Optional[int] is a     *)
(* sequence: None is <<>> and the integer n is <<n>>.  A calendar date is  *)
(* its day number (an integer); date - timedelta(days=k) is d - k.         *)
(***************************************************************************)
EXTENDS Integers, Sequences, FiniteSets, TLC

None == <<>>
Some(n) == <<n>>

\* ------------------------------------------------------------------------
\* str helpers used by _parse_units_from_tsv
\* ------------------------------------------------------------------------

TAB == "\t"
LF == "\n"
CR == "\r"
FF == "\f"
SP == " "

\* the characters str.splitlines() breaks a line at (those of the model's alphabet)
LineBreaks == {LF, CR, FF}

\* the bytes 0x1f 0x8b (the gzip magic) and the character U+FFFD, as atoms
B1F == "<1f>"
B8B == "<8b>"
UFFFD == "<fffd>"

\* the characters str.strip() removes (those of the model's alphabet)
Whitespace == {SP, TAB, LF, CR, FF, B1F}

Digits == {"0", "1", "2", "3", "4", "5", "6", "7", "8", "9"}

DigitVal(c) ==
  CASE c = "0" -> 0 [] c = "1" -> 1 [] c = "2" -> 2 [] c = "3" -> 3 [] c = "4" -> 4
    [] c = "5" -> 5 [] c = "6" -> 6 [] c = "7" -> 7 [] c = "8" -> 8 [] c = "9" -> 9

\* str.lower() on one character
LowerChar(c) ==
  CASE c = "U" -> "u" [] c = "N" -> "n" [] c = "I" -> "i" [] c = "T" -> "t"
    [] c = "S" -> "s" [] c = "K" -> "k" [] c = "A" -> "a" [] c = "X" -> "x"
    [] OTHER -> c

\* h.lower()
Lower(s) == [i \in 1..Len(s) |-> LowerChar(s[i])]

RECURSIVE SplitLinesFrom(_, _, _, _)
SplitLinesFrom(s, i, cur, acc) ==
  IF i > Len(s) THEN (IF cur = <<>> THEN acc ELSE Append(acc, cur))
  ELSE IF s[i] \in LineBreaks
       THEN IF s[i] = CR /\ i < Len(s) /\ s[i + 1] = LF
            THEN SplitLinesFrom(s, i + 2, <<>>, Append(acc, cur))
            ELSE SplitLinesFrom(s, i + 1, <<>>, Append(acc, cur))
       ELSE SplitLinesFrom(s, i + 1, Append(cur, s[i]), acc)

\* tsv.splitlines(): \r\n is one break, a final break opens no empty line
SplitLines(s) == SplitLinesFrom(s, 1, <<>>, <<>>)

RECURSIVE SplitTabFrom(_, _, _, _)
SplitTabFrom(s, i, cur, acc) ==
  IF i > Len(s) THEN Append(acc, cur)
  ELSE IF s[i] = TAB THEN SplitTabFrom(s, i + 1, <<>>, Append(acc, cur))
       ELSE SplitTabFrom(s, i + 1, Append(cur, s[i]), acc)

\* row.split('\t'): always at least one cell
SplitTab(s) == SplitTabFrom(s, 1, <<>>, <<>>)

\* s.strip()
Strip(s) ==
  LET keep == {i \in 1..Len(s) : s[i] \notin Whitespace}
  IN IF keep = {} THEN <<>>
     ELSE LET lo == CHOOSE i \in keep : \A j \in keep : i <= j
              hi == CHOOSE i \in keep : \A j \in keep : j <= i
          IN SubSeq(s, lo, hi)

\* [l for l in lines if l.strip()]
RECURSIVE NonBlank(_)
NonBlank(ls) ==
  IF ls = <<>> THEN <<>>
  ELSE IF Strip(Head(ls)) /= <<>> THEN <<Head(ls)>> \o NonBlank(Tail(ls))
       ELSE NonBlank(Tail(ls))

\* does int(val) accept val (already stripped): an optional sign, then digits,
\* single underscores allowed between digits
IntBody(s) ==
  /\ Len(s) >= 1
  /\ \A i \in 1..Len(s) : s[i] \in Digits \cup {"_"}
  /\ s[1] \in Digits
  /\ s[Len(s)] \in Digits
  /\ \A i \in 1..(Len(s) - 1) : ~(s[i] = "_" /\ s[i + 1] = "_")

\* int() raises ValueError for a literal of more than this many digits
\* (the interpreter's default int_max_str_digits)
IntMaxStrDigits == 4300

\* the digits of a literal; sign and underscores do not count
DigitCount(s) == Cardinality({i \in 1..Len(s) : s[i] \in Digits})

IntOk(s) ==
  /\ Len(s) >= 1
  /\ IF s[1] \in {"+", "-"} THEN IntBody(Tail(s)) ELSE IntBody(s)
  /\ DigitCount(s) <= IntMaxStrDigits

RECURSIVE DigitsValue(_, _)
DigitsValue(s, acc) ==
  IF s = <<>> THEN acc
  ELSE IF Head(s) = "_" THEN DigitsValue(Tail(s), acc)
       ELSE DigitsValue(Tail(s), acc * 10 + DigitVal(Head(s)))

\* int(val), for a val that IntOk accepts
IntValue(s) ==
  IF s[1] = "-" THEN 0 - DigitsValue(Tail(s), 0)
  ELSE IF s[1] = "+" THEN DigitsValue(Tail(s), 0)
  ELSE DigitsValue(s, 0)

Units == <<"U", "n", "i", "t", "s">>
units == <<"u", "n", "i", "t", "s">>

\* UnitsIndex with the case-insensitive match tried before the exact one
UnitsIndex_AnyCaseFirst(header) ==
  LET anycase == {i \in 1..Len(header) : Lower(header[i]) = units}
  IN IF anycase /= {} THEN Some(CHOOSE i \in anycase : \A j \in anycase : i <= j)
     ELSE None

\* header.index('Units'), else the first h with h.lower() == 'units', else None
UnitsIndex(header) ==
  LET exact == {i \in 1..Len(header) : header[i] = Units}
      anycase == {i \in 1..Len(header) : Lower(header[i]) = units}
  IN IF exact /= {} THEN Some(CHOOSE i \in exact : \A j \in exact : i <= j)
     ELSE IF anycase /= {} THEN Some(CHOOSE i \in anycase : \A j \in anycase : i <= j)
     ELSE None

\* RowUnits with the length test off by one: a row ending at the column is skipped
RowUnits_ShortByOne(row, idx) ==
  LET cols == SplitTab(row)
  IN IF Len(cols) <= idx THEN 0
     ELSE LET val == Strip(cols[idx])
          IN IF val = <<>> THEN 0
             ELSE IF IntOk(val) THEN IntValue(val) ELSE 0

\* one pass of the row loop: the row's contribution to total
RowUnits(row, idx) ==
  LET cols == SplitTab(row)
  IN IF Len(cols) < idx THEN 0
     ELSE LET val == Strip(cols[idx])
          IN IF val = <<>> THEN 0
             ELSE IF IntOk(val) THEN IntValue(val) ELSE 0

\* the row loop: total over lines[1:]
RECURSIVE SumRows(_, _, _)
SumRows(rows, idx, total) ==
  IF rows = <<>> THEN total
  ELSE SumRows(Tail(rows), idx, total + RowUnits(Head(rows), idx))

\* AppStoreClient._parse_units_from_tsv
parse_units_from_tsv(tsv) ==
  LET lines == NonBlank(SplitLines(tsv))
  IN IF lines = <<>> THEN None
     ELSE LET idx == UnitsIndex(SplitTab(lines[1]))
          IN IF idx = None THEN None
             ELSE Some(SumRows(Tail(lines), idx[1], 0))

\* ------------------------------------------------------------------------
\* fetch_units_for_date
\* ------------------------------------------------------------------------

\* What one GET of a report meets.  sign: does _create_jwt succeed; transport:
\* does client.get return a response; status: its status code; json: the shape
\* of the body ("malformed": r.json() raises; "no_data": no or empty 'data';
\* "no_attributes": items[0] has no 'attributes'; "no_content": no or empty
\* reportContent; "content"); b64: does base64.b64decode succeed; raw: the decoded
\* bytes; inflated: gzip.decompress(raw), None when it raises.
Response(sign, transport, status, json, b64, raw, inflated) ==
  [sign |-> sign, transport |-> transport, status |-> status, json |-> json,
   b64 |-> b64, raw |-> raw, inflated |-> inflated]

\* the outcome of a call that raised instead of returning an Optional[int]
Raised == <<"raise", "raise">>

Returns(v) == [exc |-> "", value |-> v]
Raises(e) == [exc |-> e, value |-> None]

\* tsv_bytes.startswith(b"\x1f\x8b")
StartsWithGzipMagic(bytes) == Len(bytes) >= 2 /\ bytes[1] = B1F /\ bytes[2] = B8B

\* tsv_bytes.decode('utf-8', errors='replace'): the byte 0x8b is no valid UTF-8
DecodeUtf8(bytes) == [i \in 1..Len(bytes) |-> IF bytes[i] = B8B THEN UFFFD ELSE bytes[i]]

\* lines 82-89: base64 payload to text
PayloadText(resp) ==
  LET tsv_bytes == IF StartsWithGzipMagic(resp.raw)
                   THEN (IF resp.inflated /= None THEN resp.inflated[1] ELSE resp.raw)
                   ELSE resp.raw
  IN DecodeUtf8(tsv_bytes)

\* r.raise_for_status(): anything but a 2xx raises HTTPStatusError
RaiseForStatus(status) == ~(200 <= status /\ status <= 299)

\* the body of the try block: what it returns, or the exception it raises
FetchTry(resp) ==
  IF resp.sign /= "ok" THEN Raises("InvalidKeyError")
  ELSE IF resp.transport /= "ok" THEN Raises("TransportError")
  ELSE IF resp.status = 404 THEN Returns(None)
  ELSE IF RaiseForStatus(resp.status) THEN Raises("HTTPStatusError")
  ELSE IF resp.json = "malformed" THEN Raises("JSONDecodeError")
  ELSE IF resp.json = "no_data" THEN Returns(None)
  ELSE IF resp.json = "no_attributes" THEN Raises("KeyError")
  ELSE IF resp.json = "no_content" THEN Returns(None)
  ELSE IF ~resp.b64 THEN Raises("binascii.Error")
  ELSE Returns(parse_units_from_tsv(PayloadText(resp)))

\* the classes `except Exception` catches
ExceptionClasses ==
  {"InvalidKeyError", "TransportError", "HTTPStatusError", "JSONDecodeError",
   "KeyError", "binascii.Error"}

\* fetch_units_for_date without the `except Exception` clause
fetch_units_for_date_HttpOnly(resp) ==
  LET r == FetchTry(resp)
  IN IF r.exc = "" THEN r.value
     ELSE IF r.exc = "HTTPStatusError" THEN None
     ELSE Raised

\* AppStoreClient.fetch_units_for_date: the try block and its two except clauses
fetch_units_for_date(resp) ==
  LET r == FetchTry(resp)
  IN IF r.exc = "" THEN r.value
     ELSE IF r.exc = "HTTPStatusError" THEN None
     ELSE IF r.exc \in ExceptionClasses THEN None
     ELSE Raised

\* ------------------------------------------------------------------------
\* Reports the model's server publishes, and the ways a GET can fail
\* ------------------------------------------------------------------------

\* "Units\n42\n8\n": the report of test_parse_units cut down to the Units column
Sample50 == Units \o <<LF, "4", "2", LF, "8", LF>>

\* "SKU\tUnits\nA\t0\n": a published report of a day without sales
SampleZero == <<"S", "K", "U", TAB>> \o Units \o <<LF, "A", TAB, "0", LF>>

OkResponse(text) == Response("ok", "ok", 200, "content", TRUE, text, None)
GzipResponse(text) == Response("ok", "ok", 200, "content", TRUE, <<B1F, B8B, "z">>, Some(text))
StatusResponse(status) == Response("ok", "ok", status, "content", TRUE, <<>>, None)
JsonResponse(json) == Response("ok", "ok", 200, json, TRUE, <<>>, None)

NotFound == StatusResponse(404)

\* what the server can hold for a date
WorldResponses == {NotFound, OkResponse(Sample50), GzipResponse(SampleZero)}

\* transient failures of one GET
FaultResponses ==
  {Response("error", "ok", 200, "content", TRUE, <<>>, None),
   Response("ok", "error", 200, "content", TRUE, <<>>, None),
   StatusResponse(403), StatusResponse(500),
   JsonResponse("malformed"), JsonResponse("no_data"),
   JsonResponse("no_attributes"), JsonResponse("no_content"),
   Response("ok", "ok", 200, "content", FALSE, <<>>, None),
   Response("ok", "ok", 200, "content", TRUE, <<B1F, B8B, "z">>, None)}

\* ------------------------------------------------------------------------
\* Configuration read by AppStoreClient.__init__, and main.run's periods
\* ------------------------------------------------------------------------

DefaultLagDays == 1
DefaultMaxProbeDays == 5

LagChoices == {0, DefaultLagDays}

\* the day number of the UTC day the run starts on: the proleptic ordinal of its date
StartDay == 739685

\* date.min.toordinal() and date.max.toordinal(): date arithmetic that leaves
\* this range raises OverflowError
DateMinOrdinal == 1
DateMaxOrdinal == 3652059

\* APPSTORE_LAG_DAYS is any integer int() accepts: a lag far beyond the date
\* range, and one that puts base_candidate three days after date.min
HugeLag == 1000000
EarlyLag == StartDay - 3
OutOfRangeLags == {HugeLag, EarlyLag}
ProbeChoices == {0, DefaultMaxProbeDays}

periods ==
  <<[label |-> "24h", days |-> 1], [label |-> "7d", days |-> 7],
    [label |-> "30d", days |-> 30]>>

\* the server's reports repeat with this period over the dates
PatternLen == 3

\* ------------------------------------------------------------------------
\* Message rendering and the webhook
\* ------------------------------------------------------------------------

DigitChar(n) ==
  CASE n = 0 -> "0" [] n = 1 -> "1" [] n = 2 -> "2" [] n = 3 -> "3" [] n = 4 -> "4"
    [] n = 5 -> "5" [] n = 6 -> "6" [] n = 7 -> "7" [] n = 8 -> "8" [] n = 9 -> "9"

RECURSIVE NatStr(_)
NatStr(n) == IF n < 10 THEN <<DigitChar(n)>> ELSE Append(NatStr(n \div 10), DigitChar(n % 10))

\* str(units)
IntStr(n) == IF n < 0 THEN <<"-">> \o NatStr(0 - n) ELSE NatStr(n)

NA == <<"N", "/", "A">>

\* val = str(units) if units is not None else 'N/A'; str() raises ValueError
\* for an integer of more than IntMaxStrDigits digits
PeriodValue(u) ==
  IF u = None THEN NA
  ELSE IF DigitCount(IntStr(u[1])) > IntMaxStrDigits THEN Raised
  ELSE IntStr(u[1])

\* the lines of the message: the "Data through" line (None renders UNKNOWN),
\* one line per period, the timestamp line; built only when no line raises
Content(anchor, res, now) ==
  [through |-> anchor,
   lines |-> [k \in 1..Len(res) |-> [label |-> periods[k].label, val |-> PeriodValue(res[k])]],
   timestamp |-> now]

\* what the POST meets: an exception, or a response with a status
PostOutcomes ==
  {[exc |-> FALSE, status |-> 204], [exc |-> FALSE, status |-> 404],
   [exc |-> FALSE, status |-> 500], [exc |-> TRUE, status |-> 0]}

\* DiscordNotifier.send
send(outcome) ==
  IF outcome.exc THEN FALSE
  ELSE IF outcome.status >= 400 THEN FALSE
  ELSE TRUE

\* sum(results)
RECURSIVE sum(_)
sum(xs) == IF xs = <<>> THEN 0 ELSE Head(xs) + sum(Tail(xs))

\* ------------------------------------------------------------------------
\* State
\* ------------------------------------------------------------------------

VARIABLES
  lag_days, auto_latest, max_probe_days,   \* AppStoreClient configuration
  today, world, stable,                    \* the UTC day, the server, no change or fault so far
  pc, ctx, period,                         \* position in run(); caller of the resolver; index in periods
  base_candidate, offset, probe_log, resolve_ret,   \* _determine_latest_available_date
  anchor_date, results,                    \* run(): the displayed anchor, the aggregates so far
  agg_anchor, anchors, i, collected, window_log,    \* aggregate_units
  last_resp, last_units, fetches,          \* the latest fetch_units_for_date call, the calls so far
  fetched,                                 \* fetch_units_for_date, tabulated over the responses
  posts, ok, content,                      \* the webhook
  tsv, parsed, ppc                         \* the parser taken alone

cfgvars == <<lag_days, auto_latest, max_probe_days>>
envvars == <<today, world, stable>>
resvars == <<base_candidate, offset, probe_log, resolve_ret>>
aggvars == <<agg_anchor, anchors, i, collected, window_log>>
fetchvars == <<last_resp, last_units, fetches, fetched>>
sendvars == <<posts, ok, content>>
parsevars == <<tsv, parsed, ppc>>
vars ==
  <<lag_days, auto_latest, max_probe_days, today, world, stable, pc, ctx, period,
    base_candidate, offset, probe_log, resolve_ret, anchor_date, results,
    agg_anchor, anchors, i, collected, window_log, last_resp, last_units, fetches,
    fetched,
    posts, ok, content, tsv, parsed, ppc>>

\* units = await self.fetch_units_for_date(client, d), for every response a GET can
\* meet: computed once, when the run starts, and looked up at each call
FetchTable ==
  [r \in WorldResponses \cup FaultResponses |-> fetch_units_for_date(r)]

\* the report the server holds for date d
WorldAt(d) == world[d % PatternLen]

\* what a GET for date d can meet now: the server's answer, or one transient failure
Seen(d) == {WorldAt(d)} \cup (IF stable THEN FaultResponses ELSE {})

RunInitWith(lags) ==
  /\ lag_days \in lags
  /\ auto_latest \in BOOLEAN
  /\ max_probe_days \in ProbeChoices
  /\ (~auto_latest => max_probe_days = DefaultMaxProbeDays)
  /\ today = StartDay
  /\ world \in [0..(PatternLen - 1) -> WorldResponses]
  /\ stable = TRUE
  /\ pc = "resolve" /\ ctx = "run" /\ period = 1
  /\ base_candidate = 0 /\ offset = 0 /\ probe_log = <<>> /\ resolve_ret = None
  /\ anchor_date = None /\ results = <<>>
  /\ agg_anchor = None /\ anchors = <<>> /\ i = 0 /\ collected = <<>> /\ window_log = <<>>
  /\ last_resp = NotFound /\ last_units = None /\ fetches = 0
  /\ fetched = FetchTable
  /\ posts = 0 /\ ok = FALSE /\ content = Content(None, <<>>, 0)

\* a run whose date arithmetic stays inside the date range
RunInit == RunInitWith(LagChoices)

ParseIdle == tsv = <<>> /\ parsed = None /\ ppc = "idle"

Init == RunInit /\ ParseIdle

\* a run under any of the lags, those that leave the date range included
AnyLagInit == RunInitWith(LagChoices \cup OutOfRangeLags) /\ ParseIdle

\* ------------------------------------------------------------------------
\* run(), aggregate_units and _determine_latest_available_date, one step per await
\* ------------------------------------------------------------------------

\* date - timedelta(days=k): the date k days earlier, or OverflowError when that
\* is no date (a k beyond timedelta's own range is beyond the date range too)
DateSub(d, k) ==
  IF d - k >= DateMinOrdinal /\ d - k <= DateMaxOrdinal THEN Some(d - k) ELSE Raised

\* BaseCandidate with the lag left out
BaseCandidate_NoLag(t, lag) == DateSub(t, 0)

\* base_candidate = today - timedelta(days=self.lag_days)
BaseCandidate(t, lag) == DateSub(t, lag)

\* candidate = base_candidate - timedelta(days=offset)
Candidate(base, off) == DateSub(base, off)

\* ProbeExhausted for range(0, self.max_probe_days): the last offset is never probed
ProbeExhausted_Exclusive(off, maxp) == off + 1 >= maxp

\* range(0, self.max_probe_days + 1) has no offset after off
ProbeExhausted(off, maxp) == off + 1 >= maxp + 1

\* WindowDate for range(1, days + 1): the window starts the day before the anchor
WindowDate_FromOne(anchor, k) == DateSub(anchor, k + 1)

\* dates[k] = anchor_date - timedelta(days=k)
WindowDate(anchor, k) == DateSub(anchor, k)

\* WindowDone for range(0, days - 1): the oldest date of the window is dropped
WindowDone_OneShort(k, days) == k + 1 >= days - 1

\* range(0, days) has no index after k
WindowDone(k, days) == k + 1 >= days

\* AggregateResult testing the sum instead of the list: a total of 0 reads as absent
AggregateResult_ZeroAbsent(got) == IF sum(got) = 0 THEN None ELSE Some(sum(got))

\* if not results: return None; return sum(results)
AggregateResult(got) == IF got = <<>> THEN None ELSE Some(sum(got))

\* after aggregate_units returned for periods[period]: the next period, or the message
AfterAggregate ==
  IF period = Len(periods) THEN pc' = "send" /\ period' = period
  ELSE pc' = "resolve" /\ period' = period + 1

\* _determine_latest_available_date returns ret (or raises) to its caller:
\* run() keeps it as anchor_date (None when it raised); aggregate_units lets the
\* exception through, returns None for an absent anchor, and otherwise builds
\* the whole list of window dates (which can raise) before its first fetch
ResolveReturn(ret) ==
  /\ resolve_ret' = ret
  /\ IF ctx = "run"
     THEN /\ anchor_date' = IF ret = Raised THEN None ELSE ret
          /\ ctx' = "agg" /\ pc' = "resolve"
          /\ UNCHANGED <<period, results, aggvars>>
     ELSE IF ret = Raised
     THEN /\ pc' = "crashed"
          /\ UNCHANGED <<ctx, period, anchor_date, results, aggvars>>
     ELSE IF ret = None
     THEN /\ results' = Append(results, None)
          /\ agg_anchor' = None /\ anchors' = Append(anchors, None)
          /\ window_log' = <<>> /\ collected' = <<>> /\ i' = 0
          /\ AfterAggregate
          /\ UNCHANGED <<ctx, anchor_date>>
     ELSE IF \E k \in 0..(periods[period].days - 1) : WindowDate(ret[1], k) = Raised
     THEN /\ pc' = "crashed"
          /\ UNCHANGED <<ctx, period, anchor_date, results, aggvars>>
     ELSE /\ agg_anchor' = ret /\ anchors' = Append(anchors, ret)
          /\ window_log' = <<>> /\ collected' = <<>> /\ i' = 0
          /\ pc' = "window"
          /\ UNCHANGED <<ctx, period, anchor_date, results>>

\* entry of _determine_latest_available_date up to its first await
BeginResolve ==
  /\ pc = "resolve"
  /\ probe_log' = <<>>
  /\ offset' = 0
  /\ LET base == BaseCandidate(today, lag_days)
     IN IF base = Raised THEN base_candidate' = base_candidate /\ ResolveReturn(Raised)
        ELSE /\ base_candidate' = base[1]
             /\ IF ~auto_latest THEN ResolveReturn(base)
                ELSE IF ProbeExhausted(-1, max_probe_days) THEN ResolveReturn(None)
                ELSE IF Candidate(base[1], 0) = Raised THEN ResolveReturn(Raised)
                ELSE /\ pc' = "probe"
                     /\ UNCHANGED <<ctx, period, resolve_ret, anchor_date, results, aggvars>>
  /\ UNCHANGED <<cfgvars, envvars, fetchvars, sendvars, parsevars>>

\* one pass of the probing loop: the fetch of base_candidate - offset, and up
\* to the next pass's candidate
Probe ==
  /\ pc = "probe"
  /\ LET candidate == Candidate(base_candidate, offset)[1]
     IN \E resp \in Seen(candidate) :
          LET u == fetched[resp]
          IN /\ last_resp' = resp /\ last_units' = u /\ fetches' = fetches + 1
             /\ fetched' = fetched
             /\ stable' = (stable /\ resp = WorldAt(candidate))
             /\ probe_log' = Append(probe_log, [date |-> candidate, units |-> u])
             /\ IF u = Raised THEN ResolveReturn(Raised) /\ offset' = offset
                ELSE IF u /= None THEN ResolveReturn(Some(candidate)) /\ offset' = offset
                ELSE IF ProbeExhausted(offset, max_probe_days)
                THEN ResolveReturn(None) /\ offset' = offset
                ELSE /\ offset' = offset + 1
                     /\ IF Candidate(base_candidate, offset + 1) = Raised
                        THEN ResolveReturn(Raised)
                        ELSE UNCHANGED <<pc, ctx, period, resolve_ret, anchor_date, results,
                                         aggvars>>
  /\ UNCHANGED <<cfgvars, today, world, base_candidate, sendvars, parsevars>>

\* one pass of the window loop: the fetch of dates[i]; after the last one the sum
WindowFetch ==
  /\ pc = "window"
  /\ LET d == WindowDate(agg_anchor[1], i)[1]
     IN \E resp \in Seen(d) :
          LET u == fetched[resp]
              got == IF u /= None THEN Append(collected, u[1]) ELSE collected
          IN /\ last_resp' = resp /\ last_units' = u /\ fetches' = fetches + 1
             /\ fetched' = fetched
             /\ stable' = (stable /\ resp = WorldAt(d))
             /\ IF u = Raised
                THEN /\ pc' = "crashed"
                     /\ UNCHANGED <<period, results, i, collected, window_log>>
                ELSE /\ collected' = got
                     /\ window_log' = Append(window_log, [date |-> d, units |-> u])
                     /\ i' = i + 1
                     /\ IF WindowDone(i, periods[period].days)
                        THEN /\ results' = Append(results, AggregateResult(got))
                             /\ AfterAggregate
                        ELSE UNCHANGED <<pc, period, results>>
  /\ UNCHANGED <<cfgvars, today, world, ctx, resvars, anchor_date, agg_anchor, anchors,
                 sendvars, parsevars>>

\* the message is built, with the clock read for its timestamp line
Compose ==
  /\ pc = "send"
  /\ IF \E k \in 1..Len(results) : PeriodValue(results[k]) = Raised
     THEN pc' = "crashed" /\ content' = content
     ELSE pc' = "post" /\ content' = Content(anchor_date, results, today)
  /\ UNCHANGED <<cfgvars, envvars, ctx, period, resvars, anchor_date, results, aggvars,
                 fetchvars, posts, ok, parsevars>>

\* await notifier.send(content): the one POST and its outcome
Send ==
  /\ pc = "post"
  /\ \E outcome \in PostOutcomes :
       /\ posts' = posts + 1
       /\ ok' = send(outcome)
  /\ pc' = "done"
  /\ UNCHANGED <<cfgvars, envvars, ctx, period, resvars, anchor_date, results, aggvars,
                 fetchvars, content, parsevars>>

Running == pc \in {"resolve", "probe", "window", "send", "post"}

\* the UTC day rolls over during the run
DayTick ==
  /\ Running /\ stable
  /\ today' = today + 1
  /\ stable' = FALSE
  /\ UNCHANGED <<cfgvars, world, pc, ctx, period, resvars, anchor_date, results, aggvars,
                 fetchvars, sendvars, parsevars>>

\* the server publishes, withdraws or replaces the report of a date
ServerChange ==
  /\ Running /\ stable
  /\ \E slot \in 0..(PatternLen - 1) : \E r \in WorldResponses :
       /\ world[slot] /= r
       /\ world' = [world EXCEPT ![slot] = r]
  /\ stable' = FALSE
  /\ UNCHANGED <<cfgvars, today, pc, ctx, period, resvars, anchor_date, results, aggvars,
                 fetchvars, sendvars, parsevars>>

Step == BeginResolve \/ Probe \/ WindowFetch \/ Compose \/ Send

Next == BeginResolve \/ Probe \/ WindowFetch \/ Compose \/ Send \/ DayTick \/ ServerChange

Spec == Init /\ [][Next]_vars

\* every await of the run completes: each request carries its own timeout
FairSpec == AnyLagInit /\ [][Next]_vars /\ WF_vars(Step)

\* ------------------------------------------------------------------------
\* The parser taken alone: _parse_units_from_tsv applied to bounded texts
\* ------------------------------------------------------------------------

\* the most data rows of an input text
MaxRows == 2

Cell2(a, b) == a \o <<TAB>> \o b

HeaderLines ==
  {Units, units, <<"U", "N", "I", "T", "S">>, <<"U", "n", "i", "t">>, <<>>, <<SP>>,
   <<SP>> \o Units, Units \o <<SP>>,
   Cell2(<<"S", "K", "U">>, Units), Cell2(units, Units), Cell2(<<"S", "K", "U">>, units),
   <<"S", "K", "U">>}

RowLines ==
  {<<"4", "2">>, <<"8">>, <<"-", "5">>, <<SP, "7", SP>>, <<"x">>, <<>>, <<TAB>>,
   Cell2(<<"A">>, <<"4", "2">>), Cell2(<<"A">>, <<"8">>), Cell2(<<"A">>, <<"-", "9">>),
   <<"A">>, <<"+", "3">>, <<"1", "_", "0">>, <<"4", ".", "5">>}

\* the line ends between the lines of one text
Breaks == {<<LF>>, <<CR, LF>>, <<CR>>}

RECURSIVE Join(_, _)
Join(ls, brk) ==
  IF Len(ls) = 0 THEN <<>>
  ELSE IF Len(ls) = 1 THEN ls[1]
  ELSE ls[1] \o brk \o Join(Tail(ls), brk)

RowSeqs == UNION {[1..n -> RowLines] : n \in 0..MaxRows}

TsvInputs ==
  {Join(<<h>> \o rs, brk) \o tail :
     h \in HeaderLines, rs \in RowSeqs, brk \in Breaks, tail \in {<<>>, <<LF>>}}

\* the run's variables while only the parser is exercised
RunIdle ==
  /\ lag_days = DefaultLagDays /\ auto_latest = TRUE /\ max_probe_days = DefaultMaxProbeDays
  /\ today = StartDay /\ world = [s \in 0..(PatternLen - 1) |-> NotFound] /\ stable = TRUE
  /\ pc = "idle" /\ ctx = "run" /\ period = 1
  /\ base_candidate = 0 /\ offset = 0 /\ probe_log = <<>> /\ resolve_ret = None
  /\ anchor_date = None /\ results = <<>>
  /\ agg_anchor = None /\ anchors = <<>> /\ i = 0 /\ collected = <<>> /\ window_log = <<>>
  /\ last_resp = NotFound /\ last_units = None /\ fetches = 0
  /\ fetched = FetchTable
  /\ posts = 0 /\ ok = FALSE /\ content = Content(None, <<>>, 0)

ParseInit == RunIdle /\ tsv \in TsvInputs /\ parsed = None /\ ppc = "input"

\* total = AppStoreClient._parse_units_from_tsv(tsv)
Parse ==
  /\ ppc = "input"
  /\ parsed' = parse_units_from_tsv(tsv)
  /\ ppc' = "parsed"
  /\ UNCHANGED <<tsv, cfgvars, envvars, pc, ctx, period, resvars, anchor_date, results,
                 aggvars, fetchvars, sendvars>>

ParseSpec == ParseInit /\ [][Parse]_vars

\* ------------------------------------------------------------------------
\* Properties of the parser (checked under ParseSpec)
\* ------------------------------------------------------------------------

Min(S) == CHOOSE x \in S : \A y \in S : x <= y

\* the lines of the text that hold a character that is not white space
InkLines(lines) ==
  {k \in 1..Len(lines) : \E j \in 1..Len(lines[k]) : lines[k][j] \notin Whitespace}

\* the integer in column col of a line, when the line has one there
HasUsableCell(line, col) ==
  LET cells == SplitTab(line) IN col <= Len(cells) /\ IntOk(Strip(cells[col]))

UsableCell(line, col) == IntValue(Strip(SplitTab(line)[col]))

RECURSIVE ColumnTotal(_, _, _)
ColumnTotal(lines, rows, col) ==
  IF rows = {} THEN 0
  ELSE LET k == CHOOSE r \in rows : TRUE
       IN (IF HasUsableCell(lines[k], col) THEN UsableCell(lines[k], col) ELSE 0)
          + ColumnTotal(lines, rows \ {k}, col)

\* the column the header names 'Units': the first exact match, else the first
\* match without regard to case; 0 when there is none
NamedColumn(cells) ==
  LET exact == {c \in 1..Len(cells) : cells[c] = Units}
      loose == {c \in 1..Len(cells) : Lower(cells[c]) = units}
  IN IF exact /= {} THEN Min(exact) ELSE IF loose /= {} THEN Min(loose) ELSE 0

\* C7: parse(text) is absent exactly when the text has no non-blank line or
\* the header (its first non-blank line) has no column named 'Units', exact
\* match first and any case as the fallback; otherwise it is the sum of the
\* integer-parsable trimmed cells of that column over the data rows, short,
\* blank and non-numeric rows counting nothing, so no usable row gives 0.
C7_ParseIsColumnSum ==
  ppc = "parsed" =>
    LET lines == SplitLines(tsv)
        ink == InkLines(lines)
    IN IF ink = {} THEN parsed = None
       ELSE LET h == Min(ink)
                col == NamedColumn(SplitTab(lines[h]))
            IN IF col = 0 THEN parsed = None
               ELSE parsed = Some(ColumnTotal(lines, {k \in ink : k > h}, col))

\* the rows 42 and 8 under a Units header give 50
C7_Witness ==
  /\ ppc = "parsed"
  /\ tsv = Units \o <<LF, "4", "2", LF, "8", LF>>
  /\ parsed = Some(50)

\* the data rows' usable cells of the Units column, none of them negative
NoNegativeCell ==
  LET lines == SplitLines(tsv)
      ink == InkLines(lines)
  IN ink /= {} =>
       LET h == Min(ink)
           col == NamedColumn(SplitTab(lines[h]))
       IN col /= 0 =>
            \A k \in ink : (k > h /\ HasUsableCell(lines[k], col)) => UsableCell(lines[k], col) >= 0

\* C6 as stated: every parse result is absent or an integer >= 0.
C6_ParseNonNegative == ppc = "parsed" => (parsed = None \/ parsed[1] >= 0)

\* C6 amended: a parse result is absent or one integer, and that integer is
\* >= 0 whenever no integer-parsable cell of the Units column is negative.
C6_NonNegativeWithoutNegativeCells ==
  ppc = "parsed" =>
    /\ parsed = None \/ (Len(parsed) = 1 /\ parsed[1] \in Int)
    /\ (parsed /= None /\ NoNegativeCell) => parsed[1] >= 0

\* a text with usable cells, none negative, parsed to a positive total
C6_Witness ==
  /\ ppc = "parsed" /\ parsed /= None /\ NoNegativeCell
  /\ parsed[1] > 0
  /\ Len(SplitLines(tsv)) >= 3

\* ------------------------------------------------------------------------
\* Properties of the run (checked under Spec and FairSpec)
\* ------------------------------------------------------------------------

\* the latest call of _determine_latest_available_date has returned:
\* probe_log and resolve_ret are its fetches and its result
ResolveDone == ctx = "agg" /\ pc \in {"resolve", "window", "send", "post", "done"}

\* the latest call of aggregate_units has returned: it is the call for
\* periods[Len(results)], agg_anchor is its anchor and window_log its fetches
AggDone == Len(results) >= 1 /\ pc \in {"resolve", "probe", "send", "post", "done"}

LastDays == periods[Len(results)].days
LastResult == results[Len(results)]

\* what a fetch of date d returns as long as nothing fails and nothing changes
WorldUnits(d) == fetched[WorldAt(d)]

\* the entries of a fetch log that carry a parsed total
Hits(log) == {j \in 1..Len(log) : log[j].units /= None}

RECURSIVE LogTotal(_, _)
LogTotal(log, entries) ==
  IF entries = {} THEN 0
  ELSE LET j == CHOOSE e \in entries : TRUE
       IN log[j].units[1] + LogTotal(log, entries \ {j})

RECURSIVE WorldTotal(_)
WorldTotal(dates) ==
  IF dates = {} THEN 0
  ELSE LET d == CHOOSE e \in dates : TRUE
       IN WorldUnits(d)[1] + WorldTotal(dates \ {d})

\* C1 as stated: at the end of a run every window ended at the one anchor
\* date that the "Data through" line shows.
C1_OneAnchorForAllWindows ==
  pc = "done" =>
    /\ content.through = anchor_date
    /\ \A k \in 1..Len(anchors) : anchors[k] = anchor_date

\* C2: with probing, the resolver fetches base, base-1, ... in order, returns
\* base - k for the smallest offset k in 0..max_probe_days whose fetch gave a
\* parsed result and stops there, and returns absent exactly when none of
\* the offsets did; base is today - lag, and when nothing failed or changed k
\* is the smallest offset whose date has a parsable report.
C2_ProbeReturnsSmallestOffset ==
  (ResolveDone /\ auto_latest) =>
    LET hits == {j - 1 : j \in Hits(probe_log)}
        have == {k \in 0..max_probe_days : WorldUnits(today - lag_days - k) /= None}
    IN /\ \A j \in 1..Len(probe_log) : probe_log[j].date = base_candidate - (j - 1)
       /\ Len(probe_log) <= max_probe_days + 1
       /\ (resolve_ret = None <=> hits = {})
       /\ (resolve_ret = None => Len(probe_log) = max_probe_days + 1)
       /\ (resolve_ret /= None =>
             /\ resolve_ret = Some(base_candidate - Min(hits))
             /\ Len(probe_log) = Min(hits) + 1)
       /\ (stable =>
             /\ (resolve_ret = None <=> have = {})
             /\ (resolve_ret /= None => resolve_ret = Some(today - lag_days - Min(have))))

\* lag 1, depth 5, nothing for the two newest candidates, data three days
\* before today and again further back: the resolver returns offset 2
C2_Witness ==
  /\ ResolveDone /\ auto_latest /\ stable
  /\ lag_days = 1 /\ max_probe_days = 5
  /\ resolve_ret = Some(today - 3)
  /\ WorldUnits(today - 1) = None /\ WorldUnits(today - 2) = None
  /\ WorldUnits(today - 6) /= None

\* C3: for a resolved anchor the aggregate is the plain sum of the totals of
\* the window's fetches that returned a parsed result, and absent exactly
\* when none did (a window of zero totals gives 0); when nothing failed or
\* changed that is the sum over the dates of [A-(N-1), A] that have a report.
C3_AggregateIsPartialSum ==
  (AggDone /\ agg_anchor /= None) =>
    LET hits == Hits(window_log)
        A == agg_anchor[1]
        have == {d \in (A - (LastDays - 1))..A : WorldUnits(d) /= None}
    IN /\ (LastResult = None <=> hits = {})
       /\ (hits /= {} => LastResult = Some(LogTotal(window_log, hits)))
       /\ (stable =>
             /\ (LastResult = None <=> have = {})
             /\ (have /= {} => LastResult = Some(WorldTotal(have))))

\* a 7-day window with some dates missing: the sum of the others
C3_Witness ==
  /\ AggDone /\ agg_anchor /= None /\ LastDays = 7
  /\ Cardinality(Hits(window_log)) \in 1..6
  /\ LastResult /= None /\ LastResult[1] > 0
  /\ LastResult[1] = LogTotal(window_log, Hits(window_log))

\* one GET that cannot have produced a report text
FailedGet(resp) ==
  \/ resp.sign /= "ok" \/ resp.transport /= "ok" \/ resp.status /= 200
  \/ resp.json /= "content" \/ ~resp.b64

\* C4: a GET that fails in any way makes fetch return None, never raise, the
\* run never aborts, and both loops go on to their remaining dates: a window
\* always gets all its fetches, a probe stops only at a parsed result or after
\* the last offset.
C4_FetchFailureNeverAborts ==
  /\ pc /= "crashed"
  /\ last_units /= Raised
  /\ (FailedGet(last_resp) => last_units = None)
  /\ (pc = "window" => Len(window_log) = i /\ i < periods[period].days)
  /\ ((AggDone /\ agg_anchor /= None) => Len(window_log) = LastDays)
  /\ (pc = "probe" =>
        /\ Len(probe_log) = offset /\ offset <= max_probe_days
        /\ Hits(probe_log) = {})
  /\ ((ResolveDone /\ auto_latest /\ resolve_ret = None) =>
        Len(probe_log) = max_probe_days + 1)

\* a connection error in the middle of a window, and the loop still running
C4_Witness ==
  /\ pc = "window" /\ i >= 1 /\ i < periods[period].days
  /\ last_resp.transport = "error" /\ last_units = None
  /\ window_log[i].units = None

\* C8: the window fetches of one aggregate call are for D, D-1, ... in that
\* order, one fetch per date whatever the earlier ones returned, and when the
\* call returns they are exactly the N dates D-(N-1)..D, none twice.
C8_WindowDatesExact ==
  (agg_anchor /= None /\ (pc = "window" \/ AggDone)) =>
    LET D == agg_anchor[1]
        asked == {window_log[j].date : j \in 1..Len(window_log)}
    IN /\ \A j \in 1..Len(window_log) : window_log[j].date = D - (j - 1)
       /\ (pc = "window" => Len(window_log) = i /\ i < periods[period].days)
       /\ (AggDone =>
             /\ Len(window_log) = LastDays
             /\ asked = {D - k : k \in 0..(LastDays - 1)}
             /\ Cardinality(asked) = LastDays)

\* a 30-day window, some fetches absent and some parsed, all 30 dates fetched
C8_Witness ==
  /\ AggDone /\ agg_anchor /= None /\ LastDays = 30
  /\ Len(window_log) = 30
  /\ window_log[30].date = agg_anchor[1] - 29
  /\ Cardinality(Hits(window_log)) \in 1..29

\* the window fetches so far of a run whose anchors all resolved
WindowFetches ==
  LET done == IF pc = "window" THEN Len(anchors) - 1 ELSE Len(anchors)
      DaysUpTo[k \in 0..Len(periods)] == IF k = 0 THEN 0 ELSE DaysUpTo[k - 1] + periods[k].days
  IN DaysUpTo[done] + (IF pc = "window" THEN i ELSE 0)

\* C9: without probing the resolver returns today - lag and has fetched
\* nothing, whether or not that date has a report: every fetch of the run
\* so far is a window fetch.
C9_NoProbingReturnsBase ==
  (ResolveDone /\ ~auto_latest) =>
    /\ resolve_ret /= None
    /\ resolve_ret = Some(base_candidate)
    /\ probe_log = <<>>
    /\ (stable => resolve_ret = Some(today - lag_days))
    /\ fetches = WindowFetches

\* lag 1, no report for yesterday, and yesterday is the anchor
C9_Witness ==
  /\ ResolveDone /\ ~auto_latest /\ stable
  /\ lag_days = 1
  /\ WorldUnits(today - 1) = None
  /\ resolve_ret = Some(today - 1)
  /\ probe_log = <<>>

\* C10: while nothing fails and nothing changes, with probing: an aggregate
\* whose anchor resolved to A is not absent, its first window fetch is A's and
\* A's total is part of the sum; an aggregate whose anchor is absent is absent
\* and made no window fetch.
C10_StableAnchorIsInWindow ==
  (stable /\ auto_latest /\ Len(results) >= 1 /\ pc \in {"resolve", "send", "post", "done"}) =>
    /\ agg_anchor = resolve_ret
    /\ (resolve_ret /= None =>
          /\ LastResult /= None
          /\ Len(window_log) >= 1
          /\ window_log[1].date = resolve_ret[1]
          /\ window_log[1].units /= None
          /\ window_log[1].units = WorldUnits(resolve_ret[1])
          /\ LastResult[1] = window_log[1].units[1]
                             + LogTotal(window_log, Hits(window_log) \ {1}))
    /\ (resolve_ret = None => LastResult = None /\ window_log = <<>>)

\* a finished stable run whose anchor was found two days behind the base
C10_Witness ==
  /\ stable /\ auto_latest /\ pc = "done"
  /\ resolve_ret = Some(today - lag_days - 2)
  /\ Len(results) = 3 /\ \A k \in 1..3 : results[k] /= None
  /\ window_log[1].date = today - lag_days - 2

\* every period's line shows the aggregate, 'N/A' for an absent one
RendersResults ==
  /\ Len(content.lines) = Len(periods)
  /\ \A k \in 1..Len(periods) :
       /\ (results[k] = None <=> content.lines[k].val = NA)
       /\ (results[k] /= None => content.lines[k].val = IntStr(results[k][1]))

\* C5 as stated: every run reaches the POST, with all three periods rendered
\* (an absent aggregate as 'N/A', also when the anchor was not found), and the
\* POST is made once and never again, whatever its outcome.
C5_RunAlwaysPostsOnce ==
  /\ <>(pc = "done")
  /\ [](posts <= 1)
  /\ [](pc = "done" => (posts = 1 /\ Len(results) = Len(periods) /\ RendersResults))
  /\ [][posts' /= posts => (pc = "post" /\ pc' = "done")]_vars

====
